---- MODULE Spec2Model ----
(***************************************************************************)
(* The guarded generation pipeline of app.py: the "Generate Policy"        *)
(* button handler with its three layers (authorization phrase, prompt      *)
(* deny-list, line-wise output filter) around the model backend call.      *)
(*                                                                         *)
(* A Python str is modelled as a sequence of one-character strings, so     *)
(* that lower(), strip(), split(), join() and the `in` substring test are  *)
(* computed character by character as Python computes them.                *)
(***************************************************************************)
EXTENDS Integers, Sequences, FiniteSets, TLC

\* Bounds of the model: a prompt is the concatenation of at most MaxParts
\* words of Words, a generated text has at most MaxLines lines of OutputLines.
MaxParts == 2
MaxLines == 2

----------------------------------------------------------------------------
(* Policy tables *)

PROMPT_DENY_LIST ==
    << <<"m","a","l","i","c","i","o","u","s">>, <<"e","x","p","l","o","i","t">>,
       <<"u","n","a","u","t","h","o","r","i","z","e","d">>, <<"b","y","p","a","s","s">>,
       <<"a","t","t","a","c","k">>, <<"s","h","u","t","d","o","w","n">>,
       <<"d","e","l","e","t","e"," ","a","l","l">>, <<"w","i","p","e">>,
       <<"D","D","o","S">>, <<"p","h","i","s","h","i","n","g">> >>

AUTH_PHRASE ==
    <<"I"," ","a","m"," ","a","n"," ","a","u","t","h","o","r","i","z","e","d"," ","a","d","m",
      "i","n">>

OUTPUT_DENY_LIST ==
    << <<"s","u","d","o"," ","r","m"," ","-","r","f"," ","/">>, <<"r","e","b","o","o","t">>,
       <<"s","h","u","t","d","o","w","n"," ","n","o","w">>, <<"u","n","m","o","u","n","t">>,
       <<"k","i","l","l"," ","-","9">> >>

DEFAULT_PROMPT ==
    <<"C","r","e","a","t","e"," ","a"," ","b","a","s","i","c"," ","f","i","r","e","w","a","l",
      "l"," ","p","o","l","i","c","y"," ","f","o","r"," ","a"," ","w","e","b"," ","s","e","r",
      "v","e","r",".">>

----------------------------------------------------------------------------
(* Python str operations *)

UpperChars ==
    <<"A","B","C","D","E","F","G","H","I","J","K","L","M","N","O","P","Q","R","S","T","U","V",
      "W","X","Y","Z">>
LowerChars ==
    <<"a","b","c","d","e","f","g","h","i","j","k","l","m","n","o","p","q","r","s","t","u","v",
      "w","x","y","z">>
Whitespace == {" ", "\n", "\t", "\r"}

\* the lower-case letter of each upper-case letter, and the converse
ToLower ==
    [ c \in { UpperChars[i] : i \in 1..26 } |->
        LowerChars[CHOOSE i \in 1..26 : UpperChars[i] = c] ]

ToUpper ==
    [ c \in { LowerChars[i] : i \in 1..26 } |->
        UpperChars[CHOOSE i \in 1..26 : LowerChars[i] = c] ]

lower_char(c) == IF c \in DOMAIN ToLower THEN ToLower[c] ELSE c

upper_char(c) == IF c \in DOMAIN ToUpper THEN ToUpper[c] ELSE c

lower(s) == [i \in 1..Len(s) |-> lower_char(s[i])]

upper(s) == [i \in 1..Len(s) |-> upper_char(s[i])]

RECURSIVE lstrip(_)
lstrip(s) == IF s # <<>> /\ Head(s) \in Whitespace THEN lstrip(Tail(s)) ELSE s

RECURSIVE rstrip(_)
rstrip(s) ==
    IF s # <<>> /\ s[Len(s)] \in Whitespace
    THEN rstrip(SubSeq(s, 1, Len(s) - 1))
    ELSE s

\* strip() forgotten: the field is compared as typed
strip_missing(s) == s

strip(s) == rstrip(lstrip(s))

\* word in s
In(word, s) ==
    \E i \in 1..(Len(s) - Len(word) + 1) :
        \A j \in 1..Len(word) : s[i + j - 1] = word[j]

\* the positions of the newlines of s
newlines(s) == { i \in 1..Len(s) : s[i] = "\n" }

\* the position of the j-th newline of s; 0 before the first, Len(s) + 1 after
\* the last
nth_newline(s, j) ==
    IF j = 0 THEN 0
    ELSE IF j > Cardinality(newlines(s)) THEN Len(s) + 1
    ELSE CHOOSE i \in newlines(s) : Cardinality({ k \in newlines(s) : k < i }) = j - 1

\* s.split('\n'): the pieces between consecutive newlines, one more than there
\* are newlines
split(s) ==
    [ j \in 1..(Cardinality(newlines(s)) + 1) |->
        SubSeq(s, nth_newline(s, j - 1) + 1, nth_newline(s, j) - 1) ]

\* '\n'.join(parts)
RECURSIVE join(_)
join(parts) ==
    IF parts = <<>> THEN <<>>
    ELSE IF Len(parts) = 1 THEN parts[1]
    ELSE parts[1] \o <<"\n">> \o join(Tail(parts))

----------------------------------------------------------------------------
(* The model backend *)

FIREWALL_TEXT ==
    <<"G","e","n","e","r","a","t","e","d"," ","p","o","l","i","c","y"," ","f","o","r"," ","f",
      "i","r","e","w","a","l","l",":"," ","\n","-"," ","B","l","o","c","k"," ","a","l","l"," ",
      "i","n","c","o","m","i","n","g"," ","t","r","a","f","f","i","c"," ","o","n"," ","p","o",
      "r","t"," ","2","2"," ","(","S","S","H",")"," ","f","r","o","m"," ","e","x","t","e","r",
      "n","a","l"," ","n","e","t","w","o","r","k","s","."," ","\n","-"," ","A","l","l","o","w",
      " ","w","e","b"," ","t","r","a","f","f","i","c"," ","o","n"," ","p","o","r","t","s"," ",
      "8","0"," ","a","n","d"," ","4","4","3","."," ","\n","-"," ","L","o","g"," ","a","l","l",
      " ","d","r","o","p","p","e","d"," ","p","a","c","k","e","t","s"," ","t","o"," ","t","h",
      "e"," ","s","e","c","u","r","i","t","y"," ","i","n","f","o","r","m","a","t","i","o","n",
      " ","a","n","d"," ","e","v","e","n","t"," ","m","a","n","a","g","e","m","e","n","t"," ",
      "(","S","I","E","M",")"," ","s","y","s","t","e","m","."," ","\n","-"," ","P","l","e","a",
      "s","e"," ","n","o","t","e",":"," ","T","h","i","s"," ","i","s"," ","a"," ","b","a","s",
      "i","c"," ","p","o","l","i","c","y","."," ","A","l","w","a","y","s"," ","r","e","v","i",
      "e","w"," ","a","n","d"," ","c","u","s","t","o","m","i","z","e"," ","f","o","r"," ","y",
      "o","u","r"," ","s","p","e","c","i","f","i","c"," ","n","e","e","d","s",".">>

VPN_TEXT ==
    <<"G","e","n","e","r","a","t","e","d"," ","p","o","l","i","c","y"," ","f","o","r"," ","V",
      "P","N"," ","a","c","c","e","s","s",":"," ","\n","-"," ","E","n","f","o","r","c","e"," ",
      "t","w","o","-","f","a","c","t","o","r"," ","a","u","t","h","e","n","t","i","c","a","t",
      "i","o","n"," ","f","o","r"," ","a","l","l"," ","V","P","N"," ","u","s","e","r","s",".",
      " ","\n","-"," ","R","e","q","u","i","r","e"," ","a"," ","m","i","n","i","m","u","m"," ",
      "p","a","s","s","w","o","r","d"," ","l","e","n","g","t","h"," ","o","f"," ","1","6"," ",
      "c","h","a","r","a","c","t","e","r","s","."," ","\n","-"," ","I","m","p","l","e","m","e",
      "n","t"," ","a","n"," ","i","d","l","e"," ","t","i","m","e","o","u","t"," ","o","f"," ",
      "3","0"," ","m","i","n","u","t","e","s","."," ","\n","-"," ","E","n","s","u","r","e"," ",
      "a","l","l"," ","u","s","e","r"," ","t","r","a","f","f","i","c"," ","i","s"," ","e","n",
      "c","r","y","p","t","e","d"," ","u","s","i","n","g"," ","A","E","S","-","2","5","6",".",
      " ","\n","-"," ","A","l","l"," ","V","P","N"," ","a","c","c","e","s","s"," ","s","h","o",
      "u","l","d"," ","b","e"," ","l","o","g","g","e","d"," ","a","n","d"," ","m","o","n","i",
      "t","o","r","e","d"," ","f","o","r"," ","s","u","s","p","i","c","i","o","u","s"," ","a",
      "c","t","i","v","i","t","y",".">>

GENERIC_TEXT ==
    <<"G","e","n","e","r","a","t","e","d"," ","g","e","n","e","r","i","c"," ","s","e","c","u",
      "r","i","t","y"," ","p","o","l","i","c","y",":"," ","\n","-"," ","I","m","p","l","e","m",
      "e","n","t"," ","s","t","r","o","n","g"," ","p","a","s","s","w","o","r","d"," ","p","o",
      "l","i","c","i","e","s","."," ","\n","-"," ","U","s","e"," ","e","n","d","p","o","i","n",
      "t"," ","p","r","o","t","e","c","t","i","o","n"," ","s","o","f","t","w","a","r","e",".",
      " ","\n","-"," ","R","e","g","u","l","a","r","l","y"," ","p","a","t","c","h"," ","a","l",
      "l"," ","s","y","s","t","e","m","s","."," ","\n","-"," ","C","o","n","d","u","c","t"," ",
      "r","o","u","t","i","n","e"," ","s","e","c","u","r","i","t","y"," ","a","u","d","i","t",
      "s",".">>

\* The canned response of the mock: candidates[0].content.parts[0].text
mock_generate_content(prompt) ==
    IF In(<<"f","i","r","e","w","a","l","l">>, lower(prompt)) THEN FIREWALL_TEXT
    ELSE IF In(<<"V","P","N">>, lower(prompt)) THEN VPN_TEXT
    ELSE GENERIC_TEXT

\* Lines a backend standing in for the mock may put in its text.
OutputLines ==
    { OUTPUT_DENY_LIST[i] : i \in 1..Len(OUTPUT_DENY_LIST) }
      \cup { <<" ","R","E","B","O","O","T"," ","t","h","e"," ","h","o","s","t"," ">>,
             <<" "," ","-"," ","A","l","l","o","w"," ","w","e","b"," ","t","r","a","f","f","i","c"," ">>,
             <<>> }

\* A multi-line policy with one dangerous command in the middle.
DANGEROUS_TEXT ==
    <<"G","e","n","e","r","a","t","e","d"," ","p","o","l","i","c","y"," ","f","o","r"," ","f",
      "i","r","e","w","a","l","l",":"," ","\n","s","u","d","o"," ","r","m"," ","-","r","f"," ",
      "/","\n","-"," ","A","l","l","o","w"," ","w","e","b"," ","t","r","a","f","f","i","c"," ",
      "o","n"," ","p","o","r","t","s"," ","8","0"," ","a","n","d"," ","4","4","3","."," ">>

Texts ==
    { join(ls) : ls \in UNION { [1..n -> OutputLines] : n \in 1..MaxLines } }

\* The texts the call in the try block can return as
\* candidates[0].content.parts[0].text: the mock's canned one, or any text of a
\* backend substituted for the mock.
BackendTexts(prompt) == {mock_generate_content(prompt), DANGEROUS_TEXT} \cup Texts

\* The exceptions the try block can catch instead: a response without
\* candidates[0].content.parts[0].text, or a failure of the call itself.
BackendErrors == {"KeyError", "Exception"}

----------------------------------------------------------------------------
(* The inputs of the page *)

RECURSIVE concat(_)
concat(ws) == IF ws = <<>> THEN <<>> ELSE Head(ws) \o concat(Tail(ws))

Words ==
    { PROMPT_DENY_LIST[i] : i \in 1..Len(PROMPT_DENY_LIST) }
      \cup { upper(PROMPT_DENY_LIST[4]), upper(PROMPT_DENY_LIST[7]) }
      \cup { DEFAULT_PROMPT, AUTH_PHRASE }

Prompts ==
    { concat(ws) : ws \in UNION { [1..n -> Words] : n \in 0..MaxParts } }

AuthInputs ==
    { AUTH_PHRASE,
      <<" ">> \o AUTH_PHRASE \o <<" ", "\n">>,
      lower(AUTH_PHRASE),
      <<"w","r","o","n","g"," ","p","h","r","a","s","e">>,
      <<>> }

----------------------------------------------------------------------------
(* State *)

VARIABLES
    pc,                   \* position of the handler
    user_prompt,          \* st.text_area
    authorization_check,  \* st.text_input
    is_safe_prompt,
    denied_word,          \* the word named by the guardrail error, <<>> if none
    calls,                \* number of calls of the backend
    raw_output,
    final_output_parts,
    is_safe_output,
    final_output,
    removed,              \* the lines shown as "Line removed", in order
    code_block,           \* what st.code displayed: <<>> or <<final_output>>
    log                   \* the process log shown on the page

vars ==
    << pc, user_prompt, authorization_check, is_safe_prompt, denied_word, calls,
       raw_output, final_output_parts, is_safe_output, final_output, removed,
       code_block, log >>

Init ==
    /\ pc = "Start"
    /\ user_prompt \in Prompts
    /\ authorization_check \in AuthInputs
    /\ is_safe_prompt = TRUE
    /\ denied_word = <<>>
    /\ calls = 0
    /\ raw_output = <<>>
    /\ final_output_parts = <<>>
    /\ is_safe_output = TRUE
    /\ final_output = <<>>
    /\ removed = <<>>
    /\ code_block = <<>>
    /\ log = <<>>

----------------------------------------------------------------------------
(* The handler *)

\* st.button("Generate Policy") is pressed
Click ==
    /\ pc = "Start"
    /\ pc' = "Authorizing"
    /\ log' = Append(log, "Process Log")
    /\ UNCHANGED << user_prompt, authorization_check, is_safe_prompt, denied_word,
                    calls, raw_output, final_output_parts, is_safe_output,
                    final_output, removed, code_block >>

\* st.stop() forgotten after the authorization error
Authorize_no_stop ==
    /\ pc = "Authorizing"
    /\ IF strip(authorization_check) # AUTH_PHRASE
       THEN log' = Append(log, "Authorization Failed")
       ELSE log' = Append(log, "Authorization Passed")
    /\ pc' = "InputFiltering"
    /\ UNCHANGED << user_prompt, authorization_check, is_safe_prompt, denied_word,
                    calls, raw_output, final_output_parts, is_safe_output,
                    final_output, removed, code_block >>

\* the phrase looked for inside the prompt, in any case, instead of the field
Authorize_in_prompt ==
    /\ pc = "Authorizing"
    /\ IF ~In(lower(AUTH_PHRASE), lower(user_prompt))
       THEN /\ log' = Append(log, "Authorization Failed")
            /\ pc' = "AuthFailed"
       ELSE /\ log' = Append(log, "Authorization Passed")
            /\ pc' = "InputFiltering"
    /\ UNCHANGED << user_prompt, authorization_check, is_safe_prompt, denied_word,
                    calls, raw_output, final_output_parts, is_safe_output,
                    final_output, removed, code_block >>

\* Layer 1
Authorize ==
    /\ pc = "Authorizing"
    /\ IF strip(authorization_check) # AUTH_PHRASE
       THEN /\ log' = Append(log, "Authorization Failed")
            /\ pc' = "AuthFailed"
       ELSE /\ log' = Append(log, "Authorization Passed")
            /\ pc' = "InputFiltering"
    /\ UNCHANGED << user_prompt, authorization_check, is_safe_prompt, denied_word,
                    calls, raw_output, final_output_parts, is_safe_output,
                    final_output, removed, code_block >>

\* for word in PROMPT_DENY_LIST[i..]: the index of the word the loop breaks
\* at, 0 if it runs to the end
RECURSIVE first_denied(_, _)
first_denied(i, text) ==
    IF i > Len(PROMPT_DENY_LIST) THEN 0
    ELSE IF In(PROMPT_DENY_LIST[i], text) THEN i
    ELSE first_denied(i + 1, text)

\* Layer 2
InputFilter ==
    /\ pc = "InputFiltering"
    /\ \E low \in { lower(user_prompt) } : \E hit \in { first_denied(1, low) } :
           IF hit # 0
           THEN /\ is_safe_prompt' = FALSE
                /\ denied_word' = PROMPT_DENY_LIST[hit]
                /\ log' = log \o << "Prompt Guardrail Triggered",
                                    "Please modify your request" >>
                /\ pc' = "InputDenied"
           ELSE /\ is_safe_prompt' = TRUE
                /\ denied_word' = <<>>
                /\ log' = Append(log, "Input Validation Passed")
                /\ pc' = "Generating"
    /\ UNCHANGED << user_prompt, authorization_check, calls, raw_output,
                    final_output_parts, is_safe_output, final_output, removed,
                    code_block >>

\* st.code(final_output) placed after the try/except instead of inside the try
Generate_display_after_except ==
    /\ pc = "Generating"
    /\ calls' = calls + 1
    /\ \/ /\ raw_output' \in BackendTexts(user_prompt)
          /\ log' = Append(log, "Policy Generated")
          /\ code_block' = code_block
          /\ pc' = "OutputFiltering"
       \/ /\ \E e \in BackendErrors :
                log' = Append(log, "An error occurred during generation: " \o e)
          /\ raw_output' = raw_output
          /\ code_block' = << final_output >>
          /\ pc' = "Failed"
    /\ UNCHANGED << user_prompt, authorization_check, is_safe_prompt, denied_word,
                    final_output_parts, is_safe_output, final_output, removed >>

\* response = mock_generate_content(user_prompt); raw_output = response[...]
Generate ==
    /\ pc = "Generating"
    /\ calls' = calls + 1
    /\ \/ /\ raw_output' \in BackendTexts(user_prompt)
          /\ log' = Append(log, "Policy Generated")
          /\ pc' = "OutputFiltering"
       \/ /\ \E e \in BackendErrors :
                log' = Append(log, "An error occurred during generation: " \o e)
          /\ raw_output' = raw_output
          /\ pc' = "Failed"
    /\ UNCHANGED << user_prompt, authorization_check, is_safe_prompt, denied_word,
                    final_output_parts, is_safe_output, final_output, removed,
                    code_block >>

\* line.lower() forgotten: the deny-list is matched case-sensitively
is_safe_line_case_sensitive(line) ==
    \A i \in 1..Len(OUTPUT_DENY_LIST) : ~In(OUTPUT_DENY_LIST[i], line)

\* for word in OUTPUT_DENY_LIST: if word in line.lower(): ... break
is_safe_line(line) ==
    \A low \in { lower(line) } :
        \A i \in 1..Len(OUTPUT_DENY_LIST) : ~In(OUTPUT_DENY_LIST[i], low)

\* lines removed from the list being iterated: the line after a removed one is
\* never looked at and stays
RECURSIVE filter_loop_skipping(_, _, _, _)
filter_loop_skipping(lines, i, parts, gone) ==
    IF i > Len(lines) THEN [kept |-> parts, removed |-> gone]
    ELSE IF is_safe_line(lines[i])
    THEN filter_loop_skipping(lines, i + 1, Append(parts, lines[i]), gone)
    ELSE IF i = Len(lines)
    THEN [kept |-> parts, removed |-> Append(gone, strip(lines[i]))]
    ELSE filter_loop_skipping(lines, i + 2, Append(parts, lines[i + 1]),
                              Append(gone, strip(lines[i])))

\* the kept lines appended as they are shown in the log, stripped
RECURSIVE filter_loop_stripping(_, _, _, _)
filter_loop_stripping(lines, i, parts, gone) ==
    IF i > Len(lines) THEN [kept |-> parts, removed |-> gone]
    ELSE IF is_safe_line(lines[i])
    THEN filter_loop_stripping(lines, i + 1, Append(parts, strip(lines[i])), gone)
    ELSE filter_loop_stripping(lines, i + 1, parts, Append(gone, strip(lines[i])))

\* for line in lines[i..]: parts is final_output_parts, gone the lines
\* reported as removed, both as the loop leaves them
RECURSIVE filter_loop(_, _, _, _)
filter_loop(lines, i, parts, gone) ==
    IF i > Len(lines) THEN [kept |-> parts, removed |-> gone]
    ELSE IF is_safe_line(lines[i])
    THEN filter_loop(lines, i + 1, Append(parts, lines[i]), gone)
    ELSE filter_loop(lines, i + 1, parts, Append(gone, strip(lines[i])))

\* a removed line rejects the whole response
OutputFilter_rejecting ==
    /\ pc = "OutputFiltering"
    /\ \E lines \in { split(raw_output) } : \E f \in { filter_loop(lines, 1, <<>>, <<>>) } :
          IF f.removed = <<>>
          THEN /\ final_output_parts' = f.kept
               /\ removed' = f.removed
               /\ is_safe_output' = TRUE
               /\ final_output' = join(f.kept)
               /\ code_block' = << join(f.kept) >>
               /\ log' = log \o << "Output Filters Passed", "Final Security Policy" >>
               /\ pc' = "Done"
          ELSE /\ removed' = f.removed
               /\ is_safe_output' = FALSE
               /\ log' = Append(log, "Output Filter Triggered")
               /\ pc' = "Failed"
               /\ UNCHANGED << final_output_parts, final_output, code_block >>
    /\ UNCHANGED << user_prompt, authorization_check, is_safe_prompt, denied_word,
                    calls, raw_output >>

\* Layer 3 and the display of the final policy
OutputFilter ==
    /\ pc = "OutputFiltering"
    /\ \E lines \in { split(raw_output) } : \E f \in { filter_loop(lines, 1, <<>>, <<>>) } :
           /\ final_output_parts' = f.kept
           /\ removed' = f.removed
           /\ is_safe_output' = (f.removed = <<>>)
           /\ final_output' = join(f.kept)
           /\ code_block' = << join(f.kept) >>
           /\ log' = log
                \o [i \in 1..(2 * Len(f.removed)) |->
                      IF i % 2 = 1 THEN "Output Filter Triggered" ELSE "Line removed"]
                \o (IF f.removed = <<>> THEN << "Output Filters Passed" >> ELSE << >>)
                \o << "Final Security Policy" >>
    /\ pc' = "Done"
    /\ UNCHANGED << user_prompt, authorization_check, is_safe_prompt, denied_word,
                    calls, raw_output >>

Next ==
    \/ Click
    \/ Authorize
    \/ InputFilter
    \/ Generate
    \/ OutputFilter

Spec == Init /\ [][Next]_vars

\* The script runs to its end or to st.stop() once the button is pressed.
FairSpec == Spec /\ WF_vars(Next)

----------------------------------------------------------------------------
(* Notions the properties are stated with *)

\* k occurs in s as a substring, letter case ignored on both sides
CIContains(k, s) == \E lk \in { lower(k) } : \E ls \in { lower(s) } : In(lk, ls)

\* a is the phrase, case-sensitively, with nothing but whitespace around it
PhraseWithPadding(a) ==
    \E i \in 0..Len(a) :
        /\ i + Len(AUTH_PHRASE) <= Len(a)
        /\ SubSeq(a, i + 1, i + Len(AUTH_PHRASE)) = AUTH_PHRASE
        /\ \A k \in 1..i : a[k] \in Whitespace
        /\ \A k \in (i + Len(AUTH_PHRASE) + 1)..Len(a) : a[k] \in Whitespace

\* the line has an output deny-list entry as a case-insensitive substring
Matching(line) ==
    \E k \in 1..Len(OUTPUT_DENY_LIST) : CIContains(OUTPUT_DENY_LIST[k], line)

NotMatching(line) == ~Matching(line)

stripped(lines) == [i \in 1..Len(lines) |-> strip(lines[i])]

InLog(entry) == \E i \in 1..Len(log) : log[i] = entry

AuthDecided == pc \notin {"Start", "Authorizing"}

Terminal == pc \in {"AuthFailed", "InputDenied", "Failed", "Done"}

\* the first entry of the input deny-list, in declaration order, that the
\* prompt contains in any letter case; 0 if there is none
FirstDeniedAnyCase(prompt) ==
    IF \E i \in 1..Len(PROMPT_DENY_LIST) : CIContains(PROMPT_DENY_LIST[i], prompt)
    THEN CHOOSE i \in 1..Len(PROMPT_DENY_LIST) :
            /\ CIContains(PROMPT_DENY_LIST[i], prompt)
            /\ \A j \in 1..(i - 1) : ~CIContains(PROMPT_DENY_LIST[j], prompt)
    ELSE 0

AllowedTransitions ==
    { <<"Start", "Authorizing">>,
      <<"Authorizing", "AuthFailed">>,
      <<"Authorizing", "InputFiltering">>,
      <<"InputFiltering", "InputDenied">>,
      <<"InputFiltering", "Generating">>,
      <<"Generating", "Failed">>,
      <<"Generating", "OutputFiltering">>,
      <<"OutputFiltering", "Done">> }

PipelineTransition ==
    \E t \in AllowedTransitions : pc = t[1] /\ pc' = t[2]

----------------------------------------------------------------------------
(* Properties *)

\* C1: the backend is called only in a run whose authorization field passed
\* the check and whose prompt holds no word the input filter looks for; a run
\* that ends in AuthFailed or InputDenied has called the backend 0 times.
C1_BackendOnlyAfterBothChecks ==
    /\ calls > 0 =>
          /\ PhraseWithPadding(authorization_check)
          /\ \A low \in { lower(user_prompt) } :
                \A i \in 1..Len(PROMPT_DENY_LIST) : ~In(PROMPT_DENY_LIST[i], low)
          /\ InLog("Authorization Passed")
          /\ InLog("Input Validation Passed")
          /\ is_safe_prompt
    /\ pc \in {"AuthFailed", "InputDenied"} => calls = 0

C1_Witness ==
    /\ pc = "Done"
    /\ calls = 1

\* C2: once the authorization check has run, the run is past it exactly when
\* the field is the phrase (case-sensitive) with only whitespace around it;
\* every other field ends in AuthFailed whatever the prompt is, a prompt with
\* a denied word included, and no guardrail is reported then.
C2_AuthIsTrimmedExactMatch ==
    AuthDecided =>
        /\ (pc # "AuthFailed") <=> PhraseWithPadding(authorization_check)
        /\ pc = "AuthFailed" =>
              /\ denied_word = <<>>
              /\ ~InLog("Prompt Guardrail Triggered")
              /\ log[Len(log)] = "Authorization Failed"

C2_Witness ==
    /\ pc = "AuthFailed"
    /\ \E low \in { lower(user_prompt) } :
          \E i \in 1..Len(PROMPT_DENY_LIST) : In(PROMPT_DENY_LIST[i], low)

\* C3: with authorization passed, every prompt that contains an entry of the
\* input deny-list as a substring in any letter case ends in InputDenied and
\* the backend is never called.
C3_EveryDeniedKeywordRejects ==
    ( /\ pc \notin {"Start", "Authorizing", "InputFiltering"}
      /\ PhraseWithPadding(authorization_check)
      /\ FirstDeniedAnyCase(user_prompt) # 0 )
    => (pc = "InputDenied" /\ calls = 0)

\* C4: the word reported by the input filter is the first entry of the input
\* deny-list, in declaration order, that the prompt contains in any letter
\* case.
C4_FirstMatchInDeclarationOrder ==
    pc = "InputDenied" =>
        denied_word = PROMPT_DENY_LIST[FirstDeniedAnyCase(user_prompt)]

\* C5: the displayed final output has no line that contains an output
\* deny-list entry in any letter case, and every line reported as removed
\* contains one.
C5_NoDeniedLineDisplayed ==
    pc = "Done" =>
        /\ \A ls \in { split(code_block[1]) } :
              \A i \in 1..Len(ls) : ~Matching(ls[i])
        /\ \A i \in 1..Len(removed) : Matching(removed[i])

C5_Witness ==
    /\ pc = "Done"
    /\ removed # <<>>
    /\ final_output_parts # <<>>
    /\ \E i \in 1..Len(removed) :
          \A k \in 1..Len(OUTPUT_DENY_LIST) : ~In(OUTPUT_DENY_LIST[k], removed[i])

\* C6: the kept lines are exactly the lines of the generated text that match
\* no output deny-list entry, verbatim and in their order; the displayed text
\* is these lines joined by newlines; the removed lines are the matching lines,
\* whole, and each line of the text is either kept or removed.
C6_KeptIsTheNonMatchingSubsequence ==
    pc = "Done" =>
        \A ls \in { split(raw_output) } :
            /\ final_output_parts = SelectSeq(ls, NotMatching)
            /\ removed = stripped(SelectSeq(ls, Matching))
            /\ Len(final_output_parts) + Len(removed) = Len(ls)
            /\ code_block = << final_output >>
            /\ IF final_output_parts = <<>>
               THEN final_output = <<>>
               ELSE split(final_output) = final_output_parts

C6_Witness ==
    /\ pc = "Done"
    /\ Len(final_output_parts) >= 2
    /\ Len(removed) >= 1
    /\ final_output_parts[1] # final_output_parts[2]
    /\ \E i \in 1..Len(final_output_parts) :
          strip(final_output_parts[i]) # final_output_parts[i]

\* C7: filtering the displayed final output again gives the same text and
\* removes no line.
C7_OutputFilterIdempotent ==
    pc = "Done" =>
        \A ls \in { split(final_output) } : \A g \in { filter_loop(ls, 1, <<>>, <<>>) } :
            /\ join(g.kept) = final_output
            /\ g.removed = <<>>

C7_Witness ==
    /\ pc = "Done"
    /\ Len(removed) >= 2
    /\ final_output # raw_output

\* C8: a run whose backend call failed has called the backend exactly once,
\* shows the error with its detail as the last log entry, has run no output
\* filter and displays no final policy; nothing more happens in it.
C8_BackendFailureIsTerminal ==
    /\ calls <= 1
    /\ pc = "Failed" =>
          /\ calls = 1
          /\ log[Len(log)] \in { "An error occurred during generation: KeyError",
                                 "An error occurred during generation: Exception" }
          /\ ~InLog("Policy Generated")
          /\ ~InLog("Final Security Policy")
          /\ code_block = <<>>
          /\ raw_output = <<>>
          /\ final_output_parts = <<>>
          /\ removed = <<>>
          /\ ~ENABLED Next

C8_Witness ==
    /\ pc = "Failed"
    /\ log[Len(log)] = "An error occurred during generation: KeyError"

\* C9: every run reaches a terminal outcome, takes only the transitions of
\* the pipeline, never leaves a terminal outcome, and ends in Done once the
\* backend has returned a text, removed lines or not.
C9_RunsToOneTerminalOutcome ==
    /\ <>Terminal
    /\ [][PipelineTransition]_vars
    /\ [][~Terminal]_vars
    /\ [](pc = "OutputFiltering" => <>(pc = "Done"))

C9_Witness ==
    /\ pc = "Done"
    /\ ~is_safe_output
    /\ removed # <<>>

\* C10 as stated: a prompt that contains the phrase in any letter case passes
\* the authorization check without the separate field.
C10_PhraseInPromptAuthorizes ==
    (AuthDecided /\ CIContains(AUTH_PHRASE, user_prompt)) => pc # "AuthFailed"

\* C10 as amended: the check has the one mode, the separate field; the phrase
\* inside the prompt, in any letter case, neither passes a run whose field
\* does not match nor is needed by a run whose field matches.
C10_OnlyTheFieldAuthorizes ==
    AuthDecided =>
        /\ ( /\ CIContains(AUTH_PHRASE, user_prompt)
             /\ ~PhraseWithPadding(authorization_check) ) => pc = "AuthFailed"
        /\ ( /\ ~CIContains(AUTH_PHRASE, user_prompt)
             /\ PhraseWithPadding(authorization_check) ) => pc # "AuthFailed"

C10_Witness ==
    /\ pc = "AuthFailed"
    /\ CIContains(AUTH_PHRASE, user_prompt)
    /\ authorization_check = <<>>

====
